---- MODULE Spec2Model ----
(***************************************************************************)
(* A model of the generation pipeline of QuranVideoGenerator               *)
(* (src/quran_video_generator.py): get_ayah_data, download_audio,          *)
(* merge_audio_files, create_subtitle_file, the background preparation,    *)
(* the two-stage composition and _cleanup, as driven by generate_video,    *)
(* generate_random_video and _generate_video_internal.                     *)
(*                                                                         *)
(* Durations are whole seconds.  The download budget is kept in hundredths *)
(* of a second (max_dl100) so that float(max_duration) * 0.95 is exact.    *)
(* Every external call (HTTP request, ffprobe, ffmpeg, the caller's        *)
(* progress callback) is an input: its outcome is chosen with \E.          *)
(***************************************************************************)
EXTENDS Integers, Sequences, FiniteSets, TLC

\* ------------------------------------------------------------------ bounds

\* Largest number of units handed to download_audio when it is called directly.
MaxUnits == 7
\* Largest number of units of a requested range [ayah_start, ayah_end].
MaxRange == 3
\* Largest first unit number of a requested range.
MaxStart == 2

\* ------------------------------------------------------- program constants

\* self.max_duration, the hard limit of the video length (seconds).
max_duration == 100
\* self.target_duration (seconds).
target_duration == 90
\* The marker of a duration probe that returned a non-zero status.
ProbeFail == -1

\* The durations a successful probe of one unit's audio may report (seconds).
DurSet == {10, 40, 9999}
\* The budgets download_audio is called with directly (seconds).
BudgetSet == {10, 50}
\* What the lookup service may answer for one unit.
Responses == {"ok", "no_audio", "bad_code"}

VARIABLES
    pc,              \* position of the run in the code
    outcome,         \* "Running", "Success", "Failed", "Cancelled"
    error,           \* the exception that ended the run, "" when none
    failed_stage,    \* the stage in which the exception was raised, "" when none
    entry,           \* the public method the caller invoked
    has_callback,    \* self.progress_callback is set
    background_video,\* a source clip was selected (generate_random_video)
    ayah_start,      \* first unit number of the requested range
    ayah_end,        \* last unit number of the range (adjusted after download)
    ayahs,           \* the working unit list: sequence numbers, in order
    max_dl100,       \* download budget, in hundredths of a second
    dl_i,            \* loop index i of download_audio (0-based)
    audio_files,     \* download_audio's audio_files: artifact indices, in order
    total_duration,  \* download_audio's running total (seconds)
    ayahs_used,      \* download_audio's ayahs_used
    measured,        \* probe result of every unit downloaded so far
    temp_dir_exists, \* self.temp_dir exists on disk
    temp_files,      \* the files in self.temp_dir
    merged_total,    \* total_duration of _generate_video_internal, -1 before
    progress,        \* the percentages reported to the callback, in order
    sink_refused,    \* the callback has answered falsy
    compositions,    \* the final-composition invocations, in order
    output_file,     \* the output asset has been written completely
    returned_path,   \* the run returned str(output_path)
    cleanup_ran,     \* _cleanup was called in this run
    durations,       \* create_subtitle_file's durations, one per audio artifact
    ext_calls,       \* number of external calls made (HTTP, ffprobe, ffmpeg)
    fn,              \* a helper method called on its own: arguments, locals, result
    conc             \* generators and runs of several threads, and their disk

\* The state of one generator and of its run.
pipeVars == << pc, outcome, error, failed_stage, entry, has_callback, background_video,
               ayah_start, ayah_end, ayahs, max_dl100, dl_i, audio_files,
               total_duration, ayahs_used, measured, temp_dir_exists, temp_files,
               merged_total, progress, sink_refused, compositions, output_file,
               returned_path, cleanup_ran, durations, ext_calls >>

\* What a run of the pipeline leaves alone: the call of a helper method under
\* examination and the generators of other threads.
sideVars == << fn, conc >>

vars == << pipeVars, sideVars >>

\* The variables of one download_audio call.
dlVars == << dl_i, audio_files, total_duration, ayahs_used, measured >>
\* The request, fixed through a run.
reqVars == << entry, has_callback, ayah_start, max_dl100 >>
\* How a run ended.
endVars == << outcome, error, failed_stage >>

\* ----------------------------------------------------------------- helpers

RECURSIVE SumSeq(_)
SumSeq(s) == IF s = << >> THEN 0 ELSE Head(s) + SumSeq(Tail(s))

\* What a probe result adds to the running total: nothing when the probe failed.
Contribution(r) == IF r = ProbeFail THEN 0 ELSE r

RECURSIVE Contributions(_)
Contributions(s) ==
    IF s = << >> THEN << >> ELSE << Contribution(Head(s)) >> \o Contributions(Tail(s))

\* The first k elements of s (ayahs[:k]).
Prefix(s, k) == SubSeq(s, 1, IF k < Len(s) THEN k ELSE Len(s))

\* The running total download_audio holds for the first k probe results.
RetainedTotal(m, k) == SumSeq(Contributions(Prefix(m, k)))

\* The temporary artifacts.  unit is the sequence number of the unit whose
\* audio the file holds (0 for the other artifacts).
AudioFile(i, u) == [kind |-> "audio", idx |-> i, unit |-> u]
ConcatFile == [kind |-> "concat.txt", idx |-> 0, unit |-> 0]
MergedFile == [kind |-> "merged_audio.mp3", idx |-> 0, unit |-> 0]
SubtitleFile == [kind |-> "subtitles.ass", idx |-> 0, unit |-> 0]
BackgroundFile == [kind |-> "background.mp4", idx |-> 0, unit |-> 0]
ResizedFile == [kind |-> "resized_background.mp4", idx |-> 0, unit |-> 0]

\* audio_path = temp_dir / f"audio_{i}.mp3"; write_bytes replaces an older file.
WriteAudio(files, i, u) ==
    {f \in files : ~(f.kind = "audio" /\ f.idx = i)} \cup {AudioFile(i, u)}
\* audio_path.unlink()
Unlink(files, i) == {f \in files : ~(f.kind = "audio" /\ f.idx = i)}

\* An exception leaves the run: nothing after the raise is executed.
Raise(e, stage) ==
    /\ outcome' = "Failed"
    /\ error' = e
    /\ failed_stage' = stage

\* No helper method is being examined; no other thread runs.
NoCall == [op |-> "none"]
NoRuns == [runs |-> << >>]

\* ------------------------------------------------------------------- Init

InitCommon ==
    /\ outcome = "Running"
    /\ error = ""
    /\ failed_stage = ""
    /\ background_video = FALSE
    /\ dl_i = 0
    /\ audio_files = << >>
    /\ total_duration = 0
    /\ ayahs_used = 0
    /\ measured = << >>
    /\ temp_dir_exists = TRUE
    /\ temp_files = {}
    /\ merged_total = -1
    /\ progress = << >>
    /\ sink_refused = FALSE
    /\ compositions = << >>
    /\ output_file = FALSE
    /\ returned_path = FALSE
    /\ cleanup_ran = FALSE
    /\ durations = << >>
    /\ ext_calls = 0

\* A fresh generator on which generate_video or generate_random_video is called.
Init ==
    /\ InitCommon
    /\ entry \in {"generate_video", "generate_random_video"}
    /\ pc = IF entry = "generate_video" THEN "get_ayah_data" ELSE entry
    /\ has_callback \in BOOLEAN
    /\ ayah_start \in 1..MaxStart
    /\ ayah_end \in ayah_start..(ayah_start + MaxRange - 1)
    /\ ayahs = << >>
    /\ max_dl100 = max_duration * 95
    /\ fn = NoCall
    /\ conc = NoRuns

\* A fresh generator on which download_audio(ayahs, max_duration=B) is called.
InitDL ==
    /\ InitCommon
    /\ entry = "download_audio"
    /\ pc = "download_audio"
    /\ has_callback = FALSE
    /\ ayah_start = 1
    /\ \E n \in 0..MaxUnits :
          /\ ayah_end = n
          /\ ayahs = [j \in 1..n |-> j]
    /\ \E b \in BudgetSet : max_dl100 = b * 100
    /\ fn = NoCall
    /\ conc = NoRuns

\* A generator on which no run is in progress.
Idle ==
    /\ InitCommon
    /\ entry = "none"
    /\ pc = "idle"
    /\ has_callback = FALSE
    /\ ayah_start = 1
    /\ ayah_end = 0
    /\ ayahs = << >>
    /\ max_dl100 = max_duration * 95

\* --------------------------------------------------------- download_audio

\* Variants of the stopping rule and of the probe-failure branch, as slips in
\* download_audio would make them.
StopsHere_NoFirstGuard(total, budget100, i) == total * 100 > budget100
StopsHere_GuardOffByOne(total, budget100, i) == total * 100 > budget100 /\ i > 1
StopsHere_AtBudget(total, budget100, i) == total * 100 >= budget100 /\ i > 0
StopsHere_Never(total, budget100, i) == FALSE
AppendOnProbeFailure_Dropped(files, i) == files
AfterProbeFailure_Stops(more) == "download_return"

\* if total_duration > max_duration and i > 0
StopsHere(total, budget100, i) == total * 100 > budget100 /\ i > 0

\* audio_files.append(str(audio_path)) in the branch of a failed probe
AppendOnProbeFailure(files, i) == Append(files, i)

\* the branch of a failed probe has no break: the loop goes on as after any unit
AfterProbeFailure(more) == more

\* The head of download_audio: the scratch directory is re-created when it is
\* missing, and the loop's locals are initialised.
download_audio_begin ==
    /\ pc = "download_audio"
    /\ outcome = "Running"
    /\ temp_dir_exists' = TRUE
    /\ temp_files' = IF temp_dir_exists THEN temp_files ELSE {}
    /\ audio_files' = << >>
    /\ total_duration' = 0
    /\ ayahs_used' = 0
    /\ dl_i' = 0
    /\ measured' = << >>
    /\ pc' = IF Len(ayahs) = 0 THEN "download_return" ELSE "download_loop"
    /\ UNCHANGED << sideVars, reqVars, endVars, background_video, ayah_end, ayahs,
                    merged_total, progress, sink_refused, compositions,
                    output_file, returned_path, cleanup_ran, durations, ext_calls >>

\* One iteration of the loop, for unit i = dl_i: fetch the audio, write it,
\* probe its duration, and retain the unit or stop.  A probe that returns
\* status 0 prints a number of seconds (the encoder's probing interface), so
\* float() of its output does not raise here.
download_audio_step ==
    /\ pc = "download_loop"
    /\ outcome = "Running"
    /\ dl_i < Len(ayahs)
    /\ LET i == dl_i
           u == ayahs[dl_i + 1]
           more == IF dl_i + 1 < Len(ayahs) THEN "download_loop" ELSE "download_return"
       IN
       \/ \* requests.get raises: the exception leaves download_audio
          /\ Raise("RequestException", "download")
          /\ ext_calls' = ext_calls + 1
          /\ UNCHANGED << pc, dlVars, temp_files >>
       \/ \* the probe succeeds and reports d seconds
          \E d \in DurSet :
             /\ measured' = Append(measured, d)
             /\ total_duration' = total_duration + d
             /\ ext_calls' = ext_calls + 2
             /\ IF StopsHere(total_duration + d, max_dl100, i)
                THEN /\ temp_files' = Unlink(WriteAudio(temp_files, i, u), i)
                     /\ pc' = "download_return"
                     /\ UNCHANGED << audio_files, ayahs_used, dl_i >>
                ELSE /\ temp_files' = WriteAudio(temp_files, i, u)
                     /\ audio_files' = Append(audio_files, i)
                     /\ ayahs_used' = i + 1
                     /\ dl_i' = i + 1
                     /\ pc' = more
             /\ UNCHANGED endVars
       \/ \* the probe fails: the unit is kept, the running total is unchanged
          /\ measured' = Append(measured, ProbeFail)
          /\ ext_calls' = ext_calls + 2
          /\ temp_files' = WriteAudio(temp_files, i, u)
          /\ audio_files' = AppendOnProbeFailure(audio_files, i)
          /\ ayahs_used' = i + 1
          /\ dl_i' = i + 1
          /\ pc' = AfterProbeFailure(more)
          /\ UNCHANGED << total_duration, endVars >>
    /\ UNCHANGED << sideVars, reqVars, background_video, ayah_end, ayahs, temp_dir_exists,
                    merged_total, progress, sink_refused, compositions,
                    output_file, returned_path, cleanup_ran, durations >>

\* return audio_files, ayahs_used -- to a caller that called download_audio itself.
download_audio_return ==
    /\ pc = "download_return"
    /\ outcome = "Running"
    /\ entry = "download_audio"
    /\ pc' = "returned"
    /\ UNCHANGED << sideVars, reqVars, endVars, dlVars, background_video, ayah_end, ayahs,
                    temp_dir_exists, temp_files, merged_total, progress,
                    sink_refused, compositions, output_file, returned_path,
                    cleanup_ran, durations, ext_calls >>

NextDL ==
    \/ download_audio_begin
    \/ download_audio_step
    \/ download_audio_return

SpecDL == InitDL /\ [][NextDL]_vars

\* ------------------------------------------------ the generation pipeline

\* A variant of the checkpoints: two percentages exchanged.
Checkpoints_Exchanged ==
    << [at |-> "cp5",  pct |-> 5,  next |-> "cp10"],
       [at |-> "cp10", pct |-> 10, next |-> "download_audio"],
       [at |-> "cp40", pct |-> 40, next |-> "merge_audio_files"],
       [at |-> "cp50", pct |-> 60, next |-> "create_subtitle_file"],
       [at |-> "cp60", pct |-> 50, next |-> "prepare_background"],
       [at |-> "cp70", pct |-> 70, next |-> "compose"],
       [at |-> "cp95", pct |-> 95, next |-> "_cleanup"] >>

\* The checkpoints of _generate_video_internal: where the run is, the
\* percentage it reports, and where it goes on when the callback agrees.
Checkpoints ==
    << [at |-> "cp5",  pct |-> 5,  next |-> "cp10"],
       [at |-> "cp10", pct |-> 10, next |-> "download_audio"],
       [at |-> "cp40", pct |-> 40, next |-> "merge_audio_files"],
       [at |-> "cp50", pct |-> 50, next |-> "create_subtitle_file"],
       [at |-> "cp60", pct |-> 60, next |-> "prepare_background"],
       [at |-> "cp70", pct |-> 70, next |-> "compose"],
       [at |-> "cp95", pct |-> 95, next |-> "_cleanup"] >>

CheckpointPcs == {Checkpoints[c].at : c \in DOMAIN Checkpoints}

\* Variants of the pipeline's decisions, as slips in the code would make them.
Aborts_Never(response) == FALSE
RetryAfter_Always(ok) == TRUE
RetryAfter_Never(ok) == FALSE
RetrySubtitles_Kept == TRUE
CheckRaises_Never(ok) == FALSE
Trimmed_Not(list, k) == list
Reraises_Swallowed == FALSE

\* if self.progress_callback and not self.progress_callback(p): raise
Aborts(response) == ~response
\* except subprocess.CalledProcessError: the first composition failed
RetryAfter(ok) == ~ok
\* the retry's command line carries no -vf ass=... filter
RetrySubtitles == FALSE
\* check=True on the retry: a failed invocation raises CalledProcessError
CheckRaises(ok) == ~ok

\* except subprocess.CalledProcessError as e: print(...); raise -- in
\* merge_audio_files, create_background_video and resize_video_to_portrait
Reraises == TRUE

\* if data['code'] == 200 and the audio edition carries a non-empty 'audio'
Keeps(r) == r = "ok"

\* The units get_ayah_data appends for the numbers a..b, in ascending order.
RECURSIVE Fetched(_, _, _)
Fetched(resp, a, b) ==
    IF a > b THEN << >>
    ELSE (IF Keeps(resp[a]) THEN << a >> ELSE << >>) \o Fetched(resp, a + 1, b)

\* The encoder can write its output only into a directory that exists.
CanWrite(dir_exists) == dir_exists

\* generate_random_video, step 1: a background clip is selected and
\* get_video_duration probes it, or none is found.
generate_random_video ==
    /\ pc = "generate_random_video"
    /\ outcome = "Running"
    /\ \/ \* a clip is found; get_video_duration probes it
          /\ background_video' = TRUE
          /\ ext_calls' = ext_calls + 1
          /\ pc' = "get_ayah_data"
       \/ \* no clip: a default background will be synthesized
          /\ background_video' = FALSE
          /\ pc' = "create_background_video"
          /\ UNCHANGED ext_calls
    /\ UNCHANGED << sideVars, reqVars, endVars, dlVars, ayah_end, ayahs, temp_dir_exists,
                    temp_files, merged_total, progress, sink_refused, compositions,
                    output_file, returned_path, cleanup_ran, durations >>

\* generate_random_video without a clip: create_background_video(30.0) is
\* called before the units are fetched.  It writes into self.temp_dir as it
\* is, and raises when the encoder fails.
create_default_background ==
    /\ pc = "create_background_video"
    /\ outcome = "Running"
    /\ ext_calls' = ext_calls + 1
    /\ \/ /\ CanWrite(temp_dir_exists)
          /\ temp_files' = temp_files \cup {BackgroundFile}
          /\ pc' = "get_ayah_data"
          /\ UNCHANGED endVars
       \/ /\ IF Reraises
             THEN /\ Raise("CalledProcessError", "background")
                  /\ UNCHANGED pc
             ELSE /\ pc' = "get_ayah_data"
                  /\ UNCHANGED endVars
          /\ UNCHANGED temp_files
    /\ UNCHANGED << sideVars, reqVars, dlVars, background_video, ayah_end, ayahs,
                    temp_dir_exists, merged_total, progress, sink_refused,
                    compositions, output_file, returned_path, cleanup_ran, durations >>

\* get_ayah_data: one lookup per unit of the range; a unit with a non-success
\* code or without audio is skipped.
get_ayah_data ==
    /\ pc = "get_ayah_data"
    /\ outcome = "Running"
    /\ \/ \E resp \in [ayah_start..ayah_end -> Responses] :
             /\ ayahs' = Fetched(resp, ayah_start, ayah_end)
             /\ ext_calls' = ext_calls + (ayah_end - ayah_start + 1)
             /\ pc' = "cp5"
             /\ UNCHANGED endVars
       \/ \* requests.get or response.json() raises
          /\ Raise("RequestException", "fetch")
          /\ ext_calls' = ext_calls + 1
          /\ UNCHANGED << ayahs, pc >>
    /\ UNCHANGED << sideVars, reqVars, dlVars, background_video, ayah_end, temp_dir_exists,
                    temp_files, merged_total, progress, sink_refused, compositions,
                    output_file, returned_path, cleanup_ran, durations >>

\* A checkpoint: the percentage is reported to the callback, and the run is
\* cancelled when the callback answers falsy.  Without a callback the run goes on.
Checkpoint ==
    /\ outcome = "Running"
    /\ \E c \in DOMAIN Checkpoints :
          /\ pc = Checkpoints[c].at
          /\ \/ /\ ~has_callback
                /\ pc' = Checkpoints[c].next
                /\ UNCHANGED << progress, sink_refused, endVars >>
             \/ /\ has_callback
                /\ \E response \in BOOLEAN :
                      /\ progress' = Append(progress, Checkpoints[c].pct)
                      /\ sink_refused' = ~response
                      /\ IF Aborts(response)
                         THEN /\ outcome' = "Cancelled"
                              /\ error' = "Cancelled by user"
                              /\ UNCHANGED << pc, failed_stage >>
                         ELSE /\ pc' = Checkpoints[c].next
                              /\ UNCHANGED endVars
    /\ UNCHANGED << sideVars, reqVars, dlVars, background_video, ayah_end, ayahs,
                    temp_dir_exists, temp_files, merged_total, compositions,
                    output_file, returned_path, cleanup_ran, durations, ext_calls >>

\* ayahs = ayahs[:ayahs_used]
Trimmed(list, k) == Prefix(list, k)

\* After download_audio returns to _generate_video_internal: the range and the
\* unit list are trimmed to what was retained.
adjust_range ==
    /\ pc = "download_return"
    /\ outcome = "Running"
    /\ entry # "download_audio"
    /\ IF ayahs_used < Len(ayahs)
       THEN /\ ayah_end' = ayah_start + ayahs_used - 1
            /\ ayahs' = Trimmed(ayahs, ayahs_used)
       ELSE UNCHANGED << ayah_end, ayahs >>
    /\ pc' = "cp40"
    /\ UNCHANGED << sideVars, reqVars, endVars, dlVars, background_video, temp_dir_exists,
                    temp_files, merged_total, progress, sink_refused, compositions,
                    output_file, returned_path, cleanup_ran, durations, ext_calls >>

\* merge_audio_files: the concat list is written, then the encoder concatenates.
\* The encoder cannot succeed on an empty list.
merge_audio_files ==
    /\ pc = "merge_audio_files"
    /\ outcome = "Running"
    /\ temp_dir_exists' = TRUE
    /\ ext_calls' = ext_calls + 1
    /\ LET files == IF temp_dir_exists THEN temp_files ELSE {} IN
       \/ /\ Len(audio_files) > 0
          /\ temp_files' = files \cup {ConcatFile, MergedFile}
          /\ pc' = "probe_total"
          /\ UNCHANGED endVars
       \/ /\ temp_files' = files \cup {ConcatFile}
          /\ IF Reraises
             THEN /\ Raise("CalledProcessError", "merge")
                  /\ UNCHANGED pc
             ELSE /\ pc' = "probe_total"
                  /\ UNCHANGED endVars
    /\ UNCHANGED << sideVars, reqVars, dlVars, background_video, ayah_end, ayahs, merged_total,
                    progress, sink_refused, compositions, output_file,
                    returned_path, cleanup_ran, durations >>

\* What the probe of the merged audio may report: the sum of the measured
\* durations, plus the unmeasured part when a retained unit's probe had failed.
MergedDurations ==
    {RetainedTotal(measured, ayahs_used)} \cup
    (IF \E j \in 1..ayahs_used : measured[j] = ProbeFail
     THEN {RetainedTotal(measured, ayahs_used) + d : d \in DurSet}
     ELSE {})

\* if total_duration > max_limit: total_duration = target_limit
Limited(t) == IF t > max_duration THEN target_duration ELSE t

\* Step 4 of _generate_video_internal: the merged audio is probed and the total
\* is limited.  float() of an empty probe output raises ValueError.
probe_total ==
    /\ pc = "probe_total"
    /\ outcome = "Running"
    /\ ext_calls' = ext_calls + 1
    /\ \/ \E t \in MergedDurations :
             /\ merged_total' = Limited(t)
             /\ pc' = "cp50"
             /\ UNCHANGED endVars
       \/ /\ Raise("ValueError", "merge")
          /\ UNCHANGED << merged_total, pc >>
    /\ UNCHANGED << sideVars, reqVars, dlVars, background_video, ayah_end, ayahs,
                    temp_dir_exists, temp_files, progress, sink_refused,
                    compositions, output_file, returned_path, cleanup_ran, durations >>

\* durations.append(5.0): the fallback for an artifact whose probe fails
FallbackDuration == 5

\* What create_subtitle_file takes as the duration of an artifact whose probe
\* during the download answered r; the probe of the unchanged file answers as
\* it did before.
ProbedAgain(r) == IF r = ProbeFail THEN FallbackDuration ELSE r

\* for i, (ayah, duration) in enumerate(zip(ayahs, durations)): the units and
\* the durations paired by position, as far as the shorter list goes.
Zip(units, secs) ==
    [i \in 1..(IF Len(units) < Len(secs) THEN Len(units) ELSE Len(secs)) |->
        [unit |-> units[i], of |-> secs[i].of, seconds |-> secs[i].seconds]]

\* create_subtitle_file: every audio artifact is probed again, in the order of
\* audio_files, and the subtitle document is written.
create_subtitle_file ==
    /\ pc = "create_subtitle_file"
    /\ outcome = "Running"
    /\ temp_dir_exists' = TRUE
    /\ temp_files' = (IF temp_dir_exists THEN temp_files ELSE {}) \cup {SubtitleFile}
    /\ durations' = [i \in 1..Len(audio_files) |->
                        [of |-> audio_files[i],
                         seconds |-> ProbedAgain(measured[audio_files[i] + 1])]]
    /\ ext_calls' = ext_calls + Len(audio_files)
    /\ pc' = "cp60"
    /\ UNCHANGED << sideVars, reqVars, endVars, dlVars, background_video, ayah_end, ayahs,
                    merged_total, progress, sink_refused, compositions,
                    output_file, returned_path, cleanup_ran >>

\* Step 6: resize_video_to_portrait for a selected clip, create_background_video
\* otherwise.  A failed invocation raises.
prepare_background ==
    /\ pc = "prepare_background"
    /\ outcome = "Running"
    /\ ext_calls' = ext_calls + 1
    /\ \/ /\ CanWrite(temp_dir_exists)
          /\ temp_files' = temp_files \cup
                 {IF background_video THEN ResizedFile ELSE BackgroundFile}
          /\ pc' = "cp70"
          /\ UNCHANGED endVars
       \/ /\ IF Reraises
             THEN /\ Raise("CalledProcessError", "background")
                  /\ UNCHANGED pc
             ELSE /\ pc' = "cp70"
                  /\ UNCHANGED endVars
          /\ UNCHANGED temp_files
    /\ UNCHANGED << sideVars, reqVars, dlVars, background_video, ayah_end, ayahs,
                    temp_dir_exists, merged_total, progress, sink_refused,
                    compositions, output_file, returned_path, cleanup_ran, durations >>

\* The unit range written into the derived output name when no name is supplied:
\* f"{surah_name} brwayt {reciter_name} ayahs {ayah_start}-{ayah_end}.mp4"
DerivedRange == [start |-> ayah_start, end |-> ayah_end]

\* Where the run is once the output name has been derived.
Named == {"compose", "compose_retry", "cp95", "_cleanup", "finish", "done"}

\* Step 7, first invocation: background + merged audio + subtitle overlay.
compose ==
    /\ pc = "compose"
    /\ outcome = "Running"
    /\ ext_calls' = ext_calls + 1
    /\ \E ok \in BOOLEAN :
          /\ compositions' = Append(compositions, [subs |-> TRUE, ok |-> ok])
          /\ output_file' = ok
          /\ pc' = IF RetryAfter(ok) THEN "compose_retry" ELSE "cp95"
    /\ UNCHANGED << sideVars, reqVars, endVars, dlVars, background_video, ayah_end, ayahs,
                    temp_dir_exists, temp_files, merged_total, progress,
                    sink_refused, returned_path, cleanup_ran, durations >>

\* Step 7, the fallback in the except clause: the same invocation without the
\* subtitle overlay; its failure is not caught.
compose_retry ==
    /\ pc = "compose_retry"
    /\ outcome = "Running"
    /\ ext_calls' = ext_calls + 1
    /\ \E ok \in BOOLEAN :
          /\ compositions' = Append(compositions, [subs |-> RetrySubtitles, ok |-> ok])
          /\ output_file' = (output_file \/ ok)
          /\ IF CheckRaises(ok)
             THEN /\ Raise("CalledProcessError", "compose")
                  /\ UNCHANGED pc
             ELSE /\ pc' = "cp95"
                  /\ UNCHANGED endVars
    /\ UNCHANGED << sideVars, reqVars, dlVars, background_video, ayah_end, ayahs,
                    temp_dir_exists, temp_files, merged_total, progress,
                    sink_refused, returned_path, cleanup_ran, durations >>

\* _cleanup: the scratch directory is removed with everything in it.
_cleanup ==
    /\ pc = "_cleanup"
    /\ outcome = "Running"
    /\ temp_files' = {}
    /\ temp_dir_exists' = FALSE
    /\ cleanup_ran' = TRUE
    /\ pc' = "finish"
    /\ UNCHANGED << sideVars, reqVars, endVars, dlVars, background_video, ayah_end, ayahs,
                    merged_total, progress, sink_refused, compositions,
                    output_file, returned_path, durations, ext_calls >>

\* The end of _generate_video_internal: 100 is reported (the answer is not
\* looked at) and the output path is returned.
finish ==
    /\ pc = "finish"
    /\ outcome = "Running"
    /\ progress' = IF has_callback THEN Append(progress, 100) ELSE progress
    /\ returned_path' = TRUE
    /\ outcome' = "Success"
    /\ pc' = "done"
    /\ UNCHANGED << sideVars, reqVars, error, failed_stage, dlVars, background_video, ayah_end,
                    ayahs, temp_dir_exists, temp_files, merged_total, sink_refused,
                    compositions, output_file, cleanup_ran, durations, ext_calls >>

Next ==
    \/ generate_random_video
    \/ create_default_background
    \/ get_ayah_data
    \/ Checkpoint
    \/ download_audio_begin
    \/ download_audio_step
    \/ adjust_range
    \/ merge_audio_files
    \/ probe_total
    \/ create_subtitle_file
    \/ prepare_background
    \/ compose
    \/ compose_retry
    \/ _cleanup
    \/ finish

Spec == Init /\ [][Next]_vars

\* ----------------------------------- several runs on one generator

\* Largest number of runs made on one generator, one after the other.
MaxRuns == 2

\* A fresh generator on which a first run for one unit is started; fn counts
\* the runs made on it.
InitRuns ==
    /\ InitCommon
    /\ entry \in {"generate_video", "generate_random_video"}
    /\ pc = IF entry = "generate_video" THEN "get_ayah_data" ELSE entry
    /\ has_callback \in BOOLEAN
    /\ ayah_start = 1
    /\ ayah_end = 1
    /\ ayahs = << >>
    /\ max_dl100 = max_duration * 95
    /\ fn = [op |-> "runs", n |-> 1]
    /\ conc = NoRuns

\* The caller starts another run on the generator after the last one returned
\* or raised.  The locals of the run are new; self.temp_dir and what is on
\* disk stay as the last run left them, as does self.progress_callback.
next_run ==
    /\ outcome \in {"Success", "Failed", "Cancelled"}
    /\ fn.op = "runs"
    /\ fn.n < MaxRuns
    /\ fn' = [fn EXCEPT !.n = @ + 1]
    /\ entry' \in {"generate_video", "generate_random_video"}
    /\ pc' = IF entry' = "generate_video" THEN "get_ayah_data" ELSE entry'
    /\ outcome' = "Running"
    /\ error' = ""
    /\ failed_stage' = ""
    /\ background_video' = FALSE
    /\ ayah_end' = 1
    /\ ayahs' = << >>
    /\ dl_i' = 0
    /\ audio_files' = << >>
    /\ total_duration' = 0
    /\ ayahs_used' = 0
    /\ measured' = << >>
    /\ merged_total' = -1
    /\ progress' = << >>
    /\ sink_refused' = FALSE
    /\ compositions' = << >>
    /\ output_file' = FALSE
    /\ returned_path' = FALSE
    /\ cleanup_ran' = FALSE
    /\ durations' = << >>
    /\ ext_calls' = 0
    /\ UNCHANGED << has_callback, ayah_start, max_dl100, temp_dir_exists, temp_files, conc >>

NextRuns ==
    \/ generate_random_video
    \/ create_default_background
    \/ get_ayah_data
    \/ Checkpoint
    \/ download_audio_begin
    \/ download_audio_step
    \/ adjust_range
    \/ merge_audio_files
    \/ probe_total
    \/ create_subtitle_file
    \/ prepare_background
    \/ compose
    \/ compose_retry
    \/ _cleanup
    \/ finish
    \/ next_run

SpecRuns == InitRuns /\ [][NextRuns]_vars

\* ------------------------------------------- runs on several threads

\* Number of threads, each making one run, and of generator instances.
MaxThreads == 2
MaxGenerators == 2

Threads == 1..MaxThreads
Generators == 1..MaxGenerators

\* A variant of mkdtemp that hands out one fixed directory.
Mkdtemp_Fixed(created) == 1

\* tempfile.mkdtemp(): a directory that did not exist before; created is the
\* number of directories made so far.
Mkdtemp(created) == created + 1

\* The stages of a run that touch the scratch directory, in order: whether the
\* stage re-creates a missing directory first, and the artifacts it writes.
Stages ==
    << [stage |-> "download_audio", ensures |-> TRUE, writes |-> {"audio_0.mp3"}],
       [stage |-> "merge_audio_files", ensures |-> TRUE,
        writes |-> {"concat.txt", "merged_audio.mp3"}],
       [stage |-> "create_subtitle_file", ensures |-> TRUE, writes |-> {"subtitles.ass"}],
       [stage |-> "create_background_video", ensures |-> FALSE,
        writes |-> {"background.mp4"}] >>

\* Each thread runs on a generator of its choice: its own, or one it shares.
\* Every generator was constructed with a scratch directory of its own.
InitConc ==
    /\ Idle
    /\ fn = NoCall
    /\ \E g \in [Threads -> Generators] :
          conc = [ runs     |-> [r \in Threads |->
                                   [gen |-> g[r], at |-> 1, ensured |-> FALSE,
                                    status |-> "running"]],
                   temp_dir |-> [x \in Generators |-> Mkdtemp(x - 1)],
                   created  |-> MaxGenerators,
                   dirs     |-> {Mkdtemp(x - 1) : x \in Generators},
                   files    |-> {},
                   written  |-> {},
                   lost     |-> {} ]

InProgress(r) == conc.runs[r].status = "running"

\* if not self.temp_dir.exists(): self.temp_dir = Path(tempfile.mkdtemp())
\* at the head of download_audio, merge_audio_files and create_subtitle_file.
run_ensure_temp_dir(r) ==
    LET me == conc.runs[r]
        g == me.gen
    IN  /\ InProgress(r)
        /\ me.at \in DOMAIN Stages
        /\ ~me.ensured
        /\ conc' =
             IF Stages[me.at].ensures /\ conc.temp_dir[g] \notin conc.dirs
             THEN [conc EXCEPT !.runs[r].ensured = TRUE,
                               !.temp_dir[g] = Mkdtemp(conc.created),
                               !.created = conc.created + 1,
                               !.dirs = conc.dirs \cup {Mkdtemp(conc.created)}]
             ELSE [conc EXCEPT !.runs[r].ensured = TRUE]
        /\ UNCHANGED << pipeVars, fn >>

\* The stage writes its artifacts below self.temp_dir; a write into a missing
\* directory raises and ends the run.
run_write_artifacts(r) ==
    LET me == conc.runs[r]
        d == conc.temp_dir[me.gen]
        new == {[dir |-> d, name |-> n, by |-> r] : n \in Stages[me.at].writes}
    IN  /\ InProgress(r)
        /\ me.at \in DOMAIN Stages
        /\ me.ensured
        /\ conc' =
             IF d \in conc.dirs
             THEN [conc EXCEPT
                     !.runs[r].at = me.at + 1,
                     !.runs[r].ensured = FALSE,
                     !.files = {f \in conc.files :
                                  ~(f.dir = d /\ f.name \in Stages[me.at].writes)}
                               \cup new,
                     !.written = conc.written \cup new]
             ELSE [conc EXCEPT !.runs[r].status = "failed"]
        /\ UNCHANGED << pipeVars, fn >>

\* _cleanup at the end of a successful run: shutil.rmtree(self.temp_dir).
run_cleanup(r) ==
    LET me == conc.runs[r]
        d == conc.temp_dir[me.gen]
        gone == {f \in conc.files : f.dir = d}
    IN  /\ InProgress(r)
        /\ me.at = Len(Stages) + 1
        /\ conc' =
             [conc EXCEPT
                !.runs[r].status = "done",
                !.dirs = conc.dirs \ {d},
                !.files = conc.files \ gone,
                !.lost = conc.lost \cup
                         {[victim |-> f.by, by |-> r, name |-> f.name] :
                            f \in {x \in gone : x.by # r /\ InProgress(x.by)}}]
        /\ UNCHANGED << pipeVars, fn >>

NextConc ==
    \E r \in Threads :
       \/ run_ensure_temp_dir(r)
       \/ run_write_artifacts(r)
       \/ run_cleanup(r)

SpecConc == InitConc /\ [][NextConc]_vars

\* ------------------------------------------------------ _split_text_smart

\* Longest text given to _split_text_smart on its own (characters).
MaxTextLen == 7
\* Largest max_chars_per_line and max_lines it is called with on its own.
MaxLineChars == 3
MaxLineCount == 2

\* A text is a sequence of characters; " " is the whitespace.
Alphabet == {"a", "b", " "}
Texts == UNION {[1..n -> Alphabet] : n \in 0..MaxTextLen}

\* The characters split() and strip() take for whitespace.
Whitespace == {" ", "\n"}

\* text.split(): the maximal runs of non-whitespace characters, in order.
WordStarts(text) ==
    {i \in 1..Len(text) : text[i] \notin Whitespace
                            /\ (i = 1 \/ text[i - 1] \in Whitespace)}

WordEnd(text, i) ==
    CHOOSE j \in i..Len(text) :
        /\ j = Len(text) \/ text[j + 1] \in Whitespace
        /\ \A k \in i..j : text[k] \notin Whitespace

PySplit(text) ==
    LET starts == WordStarts(text)
    IN  [w \in 1..Cardinality(starts) |->
            LET i == CHOOSE h \in starts : Cardinality({g \in starts : g < h}) = w - 1
            IN  SubSeq(text, i, WordEnd(text, i))]

\* ' '.join(words)
RECURSIVE Join(_)
Join(ws) ==
    IF ws = << >> THEN << >>
    ELSE IF Len(ws) = 1 THEN ws[1]
         ELSE ws[1] \o << " " >> \o Join(Tail(ws))

\* Variants of the splitter's decisions, as slips in the code would make them.
ExceedsLines_OneMore(lines, max_lines) == lines > max_lines + 1
StartChunk_Empty(word) == << >>

\* word_length = len(word) + 1
WordLength(word) == Len(word) + 1
\* if potential_length > max_chars_per_line
ExceedsLine(potential, max_chars) == potential > max_chars
\* if current_lines > max_lines
ExceedsLines(lines, max_lines) == lines > max_lines
\* current_chunk = [word]
StartChunk(word) == << word >>

\* The locals of _split_text_smart before the loop.
SplitStart ==
    [chunks |-> << >>, current_chunk |-> << >>, current_length |-> 0, current_lines |-> 1]

\* The body of the loop, for one word.
SplitWord(st, word, max_chars, max_lines) ==
    LET word_length == WordLength(word)
        potential_length == st.current_length + word_length
    IN  IF ExceedsLine(potential_length, max_chars)
        THEN IF ExceedsLines(st.current_lines + 1, max_lines)
             THEN [chunks |-> IF st.current_chunk # << >>
                              THEN Append(st.chunks, Join(st.current_chunk))
                              ELSE st.chunks,
                   current_chunk |-> StartChunk(word),
                   current_length |-> word_length,
                   current_lines |-> 1]
             ELSE [chunks |-> st.chunks,
                   current_chunk |-> Append(st.current_chunk, word),
                   current_length |-> word_length,
                   current_lines |-> st.current_lines + 1]
        ELSE [chunks |-> st.chunks,
              current_chunk |-> Append(st.current_chunk, word),
              current_length |-> potential_length,
              current_lines |-> st.current_lines]

RECURSIVE SplitLoop(_, _, _, _)
SplitLoop(st, words, max_chars, max_lines) ==
    IF words = << >> THEN st
    ELSE SplitLoop(SplitWord(st, Head(words), max_chars, max_lines),
                   Tail(words), max_chars, max_lines)

\* _split_text_smart(text, max_chars_per_line, max_lines): the chunks, with the
\* remaining words added, or [text] when there is no chunk.
SplitTextSmart(text, max_chars, max_lines) ==
    LET st == SplitLoop(SplitStart, PySplit(text), max_chars, max_lines)
        chunks == IF st.current_chunk # << >>
                  THEN Append(st.chunks, Join(st.current_chunk))
                  ELSE st.chunks
    IN  IF chunks # << >> THEN chunks ELSE << text >>

InitSplit ==
    /\ Idle
    /\ conc = NoRuns
    /\ \E text \in Texts, mc \in 1..MaxLineChars, ml \in 1..MaxLineCount :
          fn = [op |-> "_split_text_smart", text |-> text,
                max_chars_per_line |-> mc, max_lines |-> ml,
                returned |-> FALSE, chunks |-> << >>,
                again |-> 0, chunks_again |-> << >>]

\* The call returns its chunks.
split_text_smart ==
    /\ fn.op = "_split_text_smart"
    /\ ~fn.returned
    /\ fn' = [fn EXCEPT !.returned = TRUE,
                        !.chunks = SplitTextSmart(fn.text, fn.max_chars_per_line,
                                                  fn.max_lines)]
    /\ UNCHANGED << pipeVars, conc >>

\* One of the chunks is split again with the same limits.
split_text_again ==
    /\ fn.op = "_split_text_smart"
    /\ fn.returned
    /\ fn.again = 0
    /\ \E k \in 1..Len(fn.chunks) :
          fn' = [fn EXCEPT !.again = k,
                           !.chunks_again = SplitTextSmart(fn.chunks[k],
                                                           fn.max_chars_per_line,
                                                           fn.max_lines)]
    /\ UNCHANGED << pipeVars, conc >>

NextSplit ==
    \/ split_text_smart
    \/ split_text_again

SpecSplit == InitSplit /\ [][NextSplit]_vars

\* ------------------------------------------------------- float arithmetic

\* A time value is a Python float (IEEE 754 binary64).  A non-negative float is
\* kept as its exact value in fixed point: a sequence of digits in base
\* 2^LimbBits, most significant first, IntLimbs of them before the point and
\* FracLimbs after it.  Every float between 2^-27 and 2^30 has its 53
\* significant bits inside this window.
LimbBits == 10
IntLimbs == 3
FracLimbs == 8
Limbs == IntLimbs + FracLimbs
\* Significant bits of a binary64 value.
MantissaBits == 53

RECURSIVE Pow2(_)
Pow2(k) == IF k = 0 THEN 1 ELSE 2 * Pow2(k - 1)

Base == Pow2(LimbBits)

FZero == [i \in 1..Limbs |-> 0]

\* floor(x) and x % 1, both exact.
IntPart(x) == (x[1] * Base + x[2]) * Base + x[3]
FracPart(x) == [i \in 1..Limbs |-> IF i <= IntLimbs THEN 0 ELSE x[i]]

\* The exact sum.
RECURSIVE AddCarry(_, _, _, _, _)
AddCarry(x, y, i, carry, acc) ==
    IF i = 0 THEN acc
    ELSE AddCarry(x, y, i - 1, (x[i] + y[i] + carry) \div Base,
                  << (x[i] + y[i] + carry) % Base >> \o acc)

ExactAdd(x, y) == AddCarry(x, y, Limbs, 0, << >>)

\* The exact product with a natural number.
RECURSIVE MulCarry(_, _, _, _, _)
MulCarry(j, x, i, carry, acc) ==
    IF i = 0 THEN acc
    ELSE MulCarry(j, x, i - 1, (j * x[i] + carry) \div Base,
                  << (j * x[i] + carry) % Base >> \o acc)

ExactMul(j, x) == MulCarry(j, x, Limbs, 0, << >>)

\* The exact quotient by a natural number, and what is left over.
RECURSIVE DivStep(_, _, _, _, _)
DivStep(x, n, i, rem, acc) ==
    IF i > Limbs THEN [q |-> acc, rem |-> rem]
    ELSE DivStep(x, n, i + 1, (rem * Base + x[i]) % n,
                 Append(acc, (rem * Base + x[i]) \div n))

\* The number of bits of a digit, and the position of the leading one bit of a
\* value, counted from the most significant bit of the window (0 for zero).
BitLen(v) == CHOOSE b \in 1..LimbBits : Pow2(b - 1) <= v /\ v < Pow2(b)

LeadBit(x) ==
    IF x = FZero THEN 0
    ELSE LET k == CHOOSE i \in 1..Limbs : x[i] # 0 /\ \A h \in 1..(i - 1) : x[h] = 0
         IN  (k - 1) * LimbBits + (LimbBits - BitLen(x[k])) + 1

\* Bit number pos of x.
BitAt(x, pos) ==
    (x[(pos - 1) \div LimbBits + 1] \div Pow2(LimbBits - 1 - ((pos - 1) % LimbBits))) % 2

\* x with the bits after bit number pos cleared.
ClearAfter(x, pos) ==
    LET k == (pos - 1) \div LimbBits + 1
        unit == Pow2(LimbBits - 1 - ((pos - 1) % LimbBits))
    IN  [i \in 1..Limbs |-> IF i < k THEN x[i]
                            ELSE IF i = k THEN (x[i] \div unit) * unit
                            ELSE 0]

\* The value of bit number pos alone.
UnitAt(pos) ==
    [i \in 1..Limbs |-> IF i = (pos - 1) \div LimbBits + 1
                        THEN Pow2(LimbBits - 1 - ((pos - 1) % LimbBits))
                        ELSE 0]

\* Rounding of an exact result to the nearest float, ties to even; inexact
\* tells that the exact result has further non-zero bits below the window.
Round53(x, inexact) ==
    LET last == LeadBit(x) + MantissaBits - 1
    IN  IF x = FZero \/ last >= Limbs * LimbBits THEN x
        ELSE LET kept == ClearAfter(x, last)
                 below == inexact \/ ClearAfter(x, last + 1) # x
                 up == BitAt(x, last + 1) = 1 /\ (below \/ BitAt(x, last) = 1)
             IN  IF up THEN ExactAdd(kept, UnitAt(last)) ELSE kept

\* a + b, n * a and a / n on floats.
FAdd(x, y) == Round53(ExactAdd(x, y), FALSE)
FMulNat(j, x) == Round53(ExactMul(j, x), FALSE)
FDivNat(x, n) == Round53(DivStep(x, n, 1, 0, << >>).q, DivStep(x, n, 1, 0, << >>).rem # 0)

\* float("S.uuuuuu"): the float nearest to S + u / 1000000.
MicrosPerSecond == 1000000

RECURSIVE FracStep(_, _, _)
FracStep(rem, k, acc) ==
    IF k = 0 THEN [q |-> acc, rem |-> rem]
    ELSE FracStep((rem * Base) % MicrosPerSecond, k - 1,
                  Append(acc, (rem * Base) \div MicrosPerSecond))

FromDecimal(S, u) ==
    Round53(<< S \div (Base * Base), (S \div Base) % Base, S % Base >>
                \o FracStep(u, FracLimbs, << >>).q,
            FracStep(u, FracLimbs, << >>).rem # 0)

\* --------------------------------------------------------- _format_time

Digit(n) == << "0", "1", "2", "3", "4", "5", "6", "7", "8", "9" >>[n + 1]

\* str(n)
RECURSIVE Decimal(_)
Decimal(n) == IF n < 10 THEN << Digit(n) >> ELSE Append(Decimal(n \div 10), Digit(n % 10))

\* A variant of the centisecond field: the fraction is not taken first.
Centisecs_WholeValue(seconds) == IntPart(FMulNat(100, seconds))

\* hours = int(seconds // 3600)
Hours(seconds) == IntPart(seconds) \div 3600
\* minutes = int((seconds % 3600) // 60)
Minutes(seconds) == (IntPart(seconds) % 3600) \div 60
\* secs = int(seconds % 60)
Secs(seconds) == IntPart(seconds) % 60
\* centisecs = int((seconds % 1) * 100)
Centisecs(seconds) == IntPart(FMulNat(100, FracPart(seconds)))

\* The format specification 02d: at least two digits, zero padded.
Pad2(n) == IF n < 10 THEN << "0" >> \o Decimal(n) ELSE Decimal(n)

\* _format_time(seconds)
FormatTime(seconds) ==
    Decimal(Hours(seconds)) \o << ":" >> \o Pad2(Minutes(seconds)) \o << ":" >>
        \o Pad2(Secs(seconds)) \o << "." >> \o Pad2(Centisecs(seconds))

\* Largest number of hours in the times given to _format_time on its own.
MaxHours == 10

\* The times it is given: floats read from decimals with six places.
FmtWholeSeconds ==
    {h * 3600 + m * 60 + sec : h \in {0, MaxHours}, m \in {0, 59}, sec \in {0, 1, 59}}
FmtMicros == {0, 1, 9999, 10000, 290000, 350000, 580000, 999999}

InitFmt ==
    /\ Idle
    /\ conc = NoRuns
    /\ \E S \in FmtWholeSeconds, u \in FmtMicros :
          fn = [op |-> "_format_time", seconds |-> FromDecimal(S, u),
                returned |-> FALSE, text |-> << >>]

\* The call returns the rendered time.
format_time ==
    /\ fn.op = "_format_time"
    /\ ~fn.returned
    /\ fn' = [fn EXCEPT !.returned = TRUE, !.text = FormatTime(fn.seconds)]
    /\ UNCHANGED << pipeVars, conc >>

NextFmt == format_time

SpecFmt == InitFmt /\ [][NextFmt]_vars

\* ------------------------------------------------- create_subtitle_file

\* Units given to create_subtitle_file on its own, and words in a unit's text.
MaxSubUnits == 2
MaxSubWords == 5

\* A word of sixteen letters; two of them do not fit one line of 25 or 30.
Word == [i \in 1..16 |-> "a"]

\* A text of k words as the lookup returns it: a leading blank, the words on
\* lines of their own.
RECURSIVE Phrase(_)
Phrase(k) ==
    IF k = 0 THEN << >>
    ELSE IF k = 1 THEN << " " >> \o Word
         ELSE Phrase(k - 1) \o << "\n" >> \o Word

\* text.replace('\n', ' ').strip()
RECURSIVE LStrip(_)
LStrip(text) ==
    IF text # << >> /\ Head(text) \in Whitespace THEN LStrip(Tail(text)) ELSE text

RECURSIVE RStrip(_)
RStrip(text) ==
    IF text # << >> /\ text[Len(text)] \in Whitespace
    THEN RStrip(SubSeq(text, 1, Len(text) - 1))
    ELSE text

Clean(text) ==
    RStrip(LStrip([i \in 1..Len(text) |-> IF text[i] = "\n" THEN " " ELSE text[i]]))

\* What ffprobe answers for one audio file: a failure, or a duration printed
\* with six decimals.
ProbeAnswers ==
    {[returncode |-> 1, whole |-> 0, micros |-> 0],
     [returncode |-> 0, whole |-> 2, micros |-> 700000]}

\* durations.append(5.0) or durations.append(float(result.stdout.strip()))
ProbedDuration(answer) ==
    IF answer.returncode # 0 THEN FromDecimal(5, 0)
    ELSE FromDecimal(answer.whole, answer.micros)

\* The word counts of the texts of a unit.
UnitTexts ==
    {[arabic |-> Phrase(ka), translation |-> Phrase(kt)] :
        ka \in {1, MaxSubWords}, kt \in {0, 3, MaxSubWords}}

\* Variants of the timing decisions.
ChunkCount_Fewest(arabic_chunks, translation_chunks) ==
    IF Len(arabic_chunks) <= Len(translation_chunks)
    THEN Len(arabic_chunks) ELSE Len(translation_chunks)
NextTime_Unchanged(current_time, duration) == current_time

\* chunk_count = max(len(arabic_chunks), len(translation_chunks))
ChunkCount(arabic_chunks, translation_chunks) ==
    IF Len(arabic_chunks) >= Len(translation_chunks)
    THEN Len(arabic_chunks) ELSE Len(translation_chunks)

\* chunk_duration = duration / chunk_count if chunk_count > 0 else duration
ChunkDuration(duration, chunk_count) ==
    IF chunk_count > 0 THEN FDivNat(duration, chunk_count) ELSE duration

\* current_time += duration
NextTime(current_time, duration) == FAdd(current_time, duration)

ArabicChunks(ayah) == SplitTextSmart(Clean(ayah.arabic), 25, 2)
TranslationChunks(ayah) == SplitTextSmart(Clean(ayah.translation), 30, 2)

\* The slot of chunk_idx (counted from 1 here) of a unit that starts at
\* current_time: its times as floats and as rendered.
Slot(unit, idx, current_time, chunk_duration) ==
    LET chunk_start == FAdd(current_time, FMulNat(idx - 1, chunk_duration))
        chunk_end == FAdd(chunk_start, chunk_duration)
    IN  [unit |-> unit, slot |-> idx,
         chunk_start |-> chunk_start, chunk_end |-> chunk_end,
         chunk_start_time |-> FormatTime(chunk_start),
         chunk_end_time |-> FormatTime(chunk_end)]

\* The Dialogue lines of one slot: the Arabic one, then the English one, each
\* only when its chunk exists and is not empty.
Dialogue(slot, style, chunks) ==
    IF slot.slot <= Len(chunks) /\ chunks[slot.slot] # << >>
    THEN << [unit |-> slot.unit, slot |-> slot.slot, style |-> style,
             start |-> slot.chunk_start_time, end |-> slot.chunk_end_time,
             text |-> chunks[slot.slot]] >>
    ELSE << >>

RECURSIVE Dialogues(_, _, _, _)
Dialogues(slots, idx, arabic_chunks, translation_chunks) ==
    IF idx > Len(slots) THEN << >>
    ELSE Dialogue(slots[idx], "Arabic", arabic_chunks)
             \o Dialogue(slots[idx], "English", translation_chunks)
             \o Dialogues(slots, idx + 1, arabic_chunks, translation_chunks)

InitSub ==
    /\ Idle
    /\ conc = NoRuns
    /\ \E n \in 1..MaxSubUnits :
          \E texts \in [1..n -> UnitTexts], answers \in [1..n -> ProbeAnswers] :
              fn = [op |-> "create_subtitle_file", ayahs |-> texts,
                    probes |-> answers, at |-> "probe", durations |-> << >>,
                    i |-> 0, current_time |-> FZero, offsets |-> << >>,
                    end_times |-> << >>, chunks |-> << >>, slots |-> << >>,
                    events |-> << >>,
                    written |-> FALSE]

\* The durations of the audio files are probed.
subtitle_probe ==
    /\ fn.op = "create_subtitle_file"
    /\ fn.at = "probe"
    /\ fn' = [fn EXCEPT !.at = "loop",
                        !.durations = [k \in 1..Len(fn.probes) |->
                                          ProbedDuration(fn.probes[k])]]
    /\ UNCHANGED << pipeVars, conc >>

\* One turn of the loop over zip(ayahs, durations).
subtitle_unit ==
    /\ fn.op = "create_subtitle_file"
    /\ fn.at = "loop"
    /\ fn.i < Len(fn.ayahs) /\ fn.i < Len(fn.durations)
    /\ LET unit == fn.i + 1
           duration == fn.durations[unit]
           arabic_chunks == ArabicChunks(fn.ayahs[unit])
           translation_chunks == TranslationChunks(fn.ayahs[unit])
           chunk_count == ChunkCount(arabic_chunks, translation_chunks)
           chunk_duration == ChunkDuration(duration, chunk_count)
           slots == [idx \in 1..chunk_count |->
                        Slot(unit, idx, fn.current_time, chunk_duration)]
       IN  fn' = [fn EXCEPT
                     !.i = unit,
                     !.offsets = Append(@, fn.current_time),
                     !.end_times = Append(@, FormatTime(FAdd(fn.current_time, duration))),
                     !.chunks = Append(@, [arabic |-> arabic_chunks,
                                           translation |-> translation_chunks]),
                     !.slots = @ \o slots,
                     !.events = @ \o Dialogues(slots, 1, arabic_chunks, translation_chunks),
                     !.current_time = NextTime(fn.current_time, duration)]
    /\ UNCHANGED << pipeVars, conc >>

\* The document is written when the loop is over.
subtitle_write ==
    /\ fn.op = "create_subtitle_file"
    /\ fn.at = "loop"
    /\ ~(fn.i < Len(fn.ayahs) /\ fn.i < Len(fn.durations))
    /\ fn' = [fn EXCEPT !.at = "done", !.written = TRUE]
    /\ UNCHANGED << pipeVars, conc >>

NextSub ==
    \/ subtitle_probe
    \/ subtitle_unit
    \/ subtitle_write

SpecSub == InitSub /\ [][NextSub]_vars

\* ----------------------------------------------- get_ayah_data on its own

\* The language codes a caller may configure as the second subtitle language:
\* the keys of translation_map and codes that are not keys of it.
Langs == {"en", "fr", "ur", "tr", "id", "bn", "es", "ru", "de", "zh", "it", ""}

\* self.subtitle_languages as the constructor or the caller set it.
LanguageSettings == {<< "ar" >>} \cup {<< "ar", l >> : l \in Langs}

\* translation_map
translation_map ==
    [l \in {"en", "fr", "ur", "tr", "id", "bn", "es", "ru", "de", "zh"} |->
        CASE l = "en" -> "en.sahih"
          [] l = "fr" -> "fr.hamidullah"
          [] l = "ur" -> "ur.jalandhry"
          [] l = "tr" -> "tr.diyanet"
          [] l = "id" -> "id.indonesian"
          [] l = "bn" -> "bn.bengali"
          [] l = "es" -> "es.cortes"
          [] l = "ru" -> "ru.kuliev"
          [] l = "de" -> "de.bubenheim"
          [] l = "zh" -> "zh.jian"]

\* Variants of the lookup and of the loop, as slips in get_ayah_data would make them.
Get_NoDefault(map, key, default) == IF key \in DOMAIN map THEN map[key] ELSE key
AfterSkip_Break(n, last) == last + 1

\* dict.get(key, default)
Get(map, key, default) == IF key \in DOMAIN map THEN map[key] ELSE default

\* second_lang = self.subtitle_languages[1] if len(self.subtitle_languages) > 1 else "en"
SecondLang(languages) == IF Len(languages) > 1 THEN languages[2] ELSE "en"

\* translation_edition = translation_map.get(second_lang, "en.sahih")
TranslationEdition(languages) == Get(translation_map, SecondLang(languages), "en.sahih")

\* What the service may answer for one unit: data['code'], and the 'audio' entry
\* of the first edition ("absent" when the key is missing, "" when it is empty).
Answers ==
    { [code |-> 200, audio |-> "url"], [code |-> 200, audio |-> "absent"],
      [code |-> 200, audio |-> ""],    [code |-> 404, audio |-> "absent"] }

\* The answer as one of the Responses of the pipeline.
ResponseOf(answer) ==
    IF answer.code # 200 THEN "bad_code"
    ELSE IF answer.audio = "absent" \/ answer.audio = "" THEN "no_audio"
    ELSE "ok"

\* continue: the loop goes on with the next number of range(ayah_start, ayah_end + 1)
AfterSkip(n, last) == n + 1

\* A fresh generator, configured with a language setting, on which
\* get_ayah_data(surah, ayah_start, ayah_end) is called.
InitFetch ==
    /\ Idle
    /\ conc = NoRuns
    /\ \E a \in 1..MaxStart, n \in 0..MaxRange, languages \in LanguageSettings :
          fn = [ op |-> "get_ayah_data", at |-> "begin",
                 subtitle_languages |-> languages,
                 ayah_start |-> a, ayah_end |-> a + n - 1,
                 translation_edition |-> "", ayah_num |-> a,
                 requested |-> << >>, answers |-> << >>, ayahs |-> << >>,
                 raised |-> "" ]

\* The head of get_ayah_data: the edition of the translation is looked up.
fetch_begin ==
    /\ fn.op = "get_ayah_data"
    /\ fn.at = "begin"
    /\ fn' = [fn EXCEPT !.translation_edition = TranslationEdition(fn.subtitle_languages),
                        !.at = IF fn.ayah_start > fn.ayah_end THEN "return" ELSE "loop"]
    /\ UNCHANGED << pipeVars, conc >>

\* One iteration of the loop: the unit ayah_num is requested with the audio
\* edition and the translation edition, and appended or skipped.
fetch_unit ==
    /\ fn.op = "get_ayah_data"
    /\ fn.at = "loop"
    /\ LET n == fn.ayah_num
           url == [ayah_num |-> n, edition |-> fn.translation_edition]
           to(next) == IF next > fn.ayah_end THEN "return" ELSE "loop"
       IN
       \/ \* requests.get or response.json() raises: the exception leaves the method
          fn' = [fn EXCEPT !.requested = Append(@, url),
                           !.raised = "RequestException",
                           !.at = "raised"]
       \/ \E answer \in Answers :
             IF Keeps(ResponseOf(answer))
             THEN fn' = [fn EXCEPT !.requested = Append(@, url),
                                   !.answers = Append(@, answer),
                                   !.ayahs = Append(@, n),
                                   !.ayah_num = n + 1,
                                   !.at = to(n + 1)]
             ELSE fn' = [fn EXCEPT !.requested = Append(@, url),
                                   !.answers = Append(@, answer),
                                   !.ayah_num = AfterSkip(n, fn.ayah_end),
                                   !.at = to(AfterSkip(n, fn.ayah_end))]
    /\ UNCHANGED << pipeVars, conc >>

\* return ayahs
fetch_return ==
    /\ fn.op = "get_ayah_data"
    /\ fn.at = "return"
    /\ fn' = [fn EXCEPT !.at = "returned"]
    /\ UNCHANGED << pipeVars, conc >>

NextFetch ==
    \/ fetch_begin
    \/ fetch_unit
    \/ fetch_return

SpecFetch == InitFetch /\ [][NextFetch]_vars

\* ------------------------------------ calculate_ayahs_for_duration

\* self.surahs: (surah number, number of ayahs)
surahs ==
    << << 1, 7 >>, << 2, 286 >>, << 3, 200 >>, << 4, 176 >>, << 5, 120 >>, << 6, 165 >>, << 7, 206 >>,
       << 8, 75 >>, << 9, 129 >>, << 10, 109 >>, << 11, 123 >>, << 12, 111 >>, << 13, 43 >>, << 14, 52 >>,
       << 15, 99 >>, << 16, 128 >>, << 17, 111 >>, << 18, 110 >>, << 19, 98 >>, << 20, 135 >>, << 21, 112 >>,
       << 22, 78 >>, << 23, 118 >>, << 24, 64 >>, << 25, 77 >>, << 26, 227 >>, << 27, 93 >>, << 28, 88 >>,
       << 29, 69 >>, << 30, 60 >>, << 31, 34 >>, << 32, 30 >>, << 33, 73 >>, << 34, 54 >>, << 35, 45 >>,
       << 36, 83 >>, << 37, 182 >>, << 38, 88 >>, << 39, 75 >>, << 40, 85 >>, << 41, 54 >>, << 42, 53 >>,
       << 43, 89 >>, << 44, 59 >>, << 45, 37 >>, << 46, 35 >>, << 47, 38 >>, << 48, 29 >>, << 49, 18 >>,
       << 50, 45 >>, << 51, 60 >>, << 52, 49 >>, << 53, 62 >>, << 54, 55 >>, << 55, 78 >>, << 56, 96 >>,
       << 57, 29 >>, << 58, 22 >>, << 59, 24 >>, << 60, 13 >>, << 61, 14 >>, << 62, 11 >>, << 63, 11 >>,
       << 64, 18 >>, << 65, 12 >>, << 66, 12 >>, << 67, 30 >>, << 68, 52 >>, << 69, 52 >>, << 70, 44 >>,
       << 71, 28 >>, << 72, 28 >>, << 73, 20 >>, << 74, 56 >>, << 75, 40 >>, << 76, 31 >>, << 77, 50 >>,
       << 78, 40 >>, << 79, 46 >>, << 80, 42 >>, << 81, 29 >>, << 82, 19 >>, << 83, 36 >>, << 84, 25 >>,
       << 85, 22 >>, << 86, 17 >>, << 87, 19 >>, << 88, 26 >>, << 89, 30 >>, << 90, 20 >>, << 91, 15 >>,
       << 92, 21 >>, << 93, 11 >>, << 94, 8 >>, << 95, 8 >>, << 96, 19 >>, << 97, 5 >>, << 98, 8 >>,
       << 99, 8 >>, << 100, 11 >>, << 101, 11 >>, << 102, 8 >>, << 103, 3 >>, << 104, 9 >>, << 105, 5 >>,
       << 106, 4 >>, << 107, 7 >>, << 108, 3 >>, << 109, 6 >>, << 110, 3 >>, << 111, 5 >>, << 112, 4 >>,
       << 113, 5 >>, << 114, 6 >> >>

\* The target durations generate_random_video passes (whole seconds): 0 when
\* the probe of the clip failed, 30 without a clip, the length of a clip.
TargetDurations == {0, 30, 120}

\* A variant that takes the target from the argument.
Target_FromArgument(duration_arg) == FromDecimal(duration_arg, 0)

\* target = 85.0: the argument is not looked at
Target(duration_arg) == FromDecimal(85, 0)

Max(a, b) == IF a > b THEN a ELSE b
Min(a, b) == IF a < b THEN a ELSE b

\* max_start = max(1, total_ayahs - 4)
MaxStartOf(total_ayahs) == Max(1, total_ayahs - 4)

\* estimated_ayahs = int(target / 7); estimated_ayahs = max(3, min(estimated_ayahs, 14))
EstimatedAyahs(target) == Max(3, Min(IntPart(FDivNat(target, 7)), 14))

\* ayah_end = min(ayah_start + estimated_ayahs - 1, total_ayahs)
AyahEnd(start, estimated_ayahs, total_ayahs) ==
    Min(start + estimated_ayahs - 1, total_ayahs)

\* A generator on which calculate_ayahs_for_duration(target_duration) is called.
InitCalc ==
    /\ Idle
    /\ conc = NoRuns
    /\ \E t \in TargetDurations :
          fn = [ op |-> "calculate_ayahs_for_duration", at |-> "choose",
                 target_duration |-> t, surah_num |-> 0, total_ayahs |-> 0,
                 ayah_start |-> 0, ayah_end |-> 0 ]

\* surah_num, total_ayahs = random.choice(self.surahs)
calc_choose_surah ==
    /\ fn.op = "calculate_ayahs_for_duration"
    /\ fn.at = "choose"
    /\ \E k \in DOMAIN surahs :
          fn' = [fn EXCEPT !.surah_num = surahs[k][1],
                           !.total_ayahs = surahs[k][2],
                           !.at = "range"]
    /\ UNCHANGED << pipeVars, conc >>

\* ayah_start = random.randint(1, max_start), the estimate, and the return.
calc_return ==
    /\ fn.op = "calculate_ayahs_for_duration"
    /\ fn.at = "range"
    /\ \E start \in 1..MaxStartOf(fn.total_ayahs) :
          fn' = [fn EXCEPT !.ayah_start = start,
                           !.ayah_end = AyahEnd(start,
                                                EstimatedAyahs(Target(fn.target_duration)),
                                                fn.total_ayahs),
                           !.at = "returned"]
    /\ UNCHANGED << pipeVars, conc >>

NextCalc ==
    \/ calc_choose_surah
    \/ calc_return

SpecCalc == InitCalc /\ [][NextCalc]_vars

\* ================================================================ claims
\* ------------------------------------------------- download_audio (SpecDL)

\* The running total over the first j downloaded units, as download_audio
\* computes it: a unit whose probe failed adds nothing.
PrefixSum(j) == SumSeq(Contributions(Prefix(measured, j)))
RetainedSum == PrefixSum(ayahs_used)
AllProbesOk == \A j \in 1..Len(measured) : measured[j] # ProbeFail

\* C1: for a non-empty unit sequence, any budget and any probe outcomes,
\* download_audio retains at least one unit: once the first unit has been
\* processed it is retained (counted, listed and its artifact kept), even when
\* its measured duration alone exceeds the budget; and download_audio does not
\* return before the first unit has been processed.
C1_FirstUnitRetained ==
    /\ Len(measured) >= 1 =>
          /\ ayahs_used >= 1
          /\ Len(audio_files) >= 1
          /\ audio_files[1] = 0
          /\ AudioFile(0, ayahs[1]) \in temp_files
    /\ (pc = "returned" /\ Len(ayahs) >= 1) => Len(measured) >= 1

\* C1 witness: a single unit measured at 9999s against a budget of 10s is retained.
C1_Witness ==
    /\ pc = "returned"
    /\ Len(ayahs) = 1
    /\ measured = << 9999 >>
    /\ max_dl100 = 10 * 100
    /\ ayahs_used = 1

\* C2 as stated: whenever download_audio retains fewer units than it was given,
\* the durations of the retained units sum to at most the budget.
C2_Original ==
    (pc = "returned" /\ ayahs_used < Len(ayahs)) =>
        RetainedSum * 100 <= max_dl100

\* C2 amended: whenever download_audio retains fewer units than it was given and
\* the first unit's measured duration does not by itself exceed the budget, the
\* measured durations of the retained units (a unit whose probe failed counting
\* for nothing) sum to at most the budget.
C2_SumWithinBudget ==
    (/\ pc = "returned"
     /\ ayahs_used < Len(ayahs)
     /\ Contribution(measured[1]) * 100 <= max_dl100) =>
        RetainedSum * 100 <= max_dl100

\* C2 witness: two or more units retained, exactly filling the budget, and a
\* further unit rejected.
C2_Witness ==
    /\ pc = "returned"
    /\ ayahs_used < Len(ayahs)
    /\ ayahs_used >= 2
    /\ AllProbesOk
    /\ RetainedSum * 100 = max_dl100

\* C3: when every probe succeeds, download_audio stops at the first unit other
\* than the first whose duration makes the running total strictly greater than
\* the budget: no retained unit after the first made the total exceed the
\* budget; the rejected unit is the one right after the retained prefix, its
\* artifact is deleted and nothing after it was downloaded; without such a unit
\* all units are retained.  Seven units of 10s with a budget of 50s give a
\* retained count of 5 and a total of 50s.
C3_StopsAtFirstExcess ==
    (pc = "returned" /\ AllProbesOk) =>
        LET k == ayahs_used
            n == Len(ayahs)
        IN  /\ \A j \in 2..k : PrefixSum(j) * 100 <= max_dl100
            /\ k < n =>
                  /\ Len(measured) = k + 1
                  /\ PrefixSum(k + 1) * 100 > max_dl100
                  /\ \A f \in temp_files : ~(f.kind = "audio" /\ f.idx = k)
            /\ k = n => Len(measured) = n
            /\ Len(measured) <= k + 1
            /\ (/\ n = 7
                /\ max_dl100 = 50 * 100
                /\ \A j \in 1..Len(measured) : measured[j] = 10) =>
                  (k = 5 /\ RetainedSum = 50)

\* C3 witness: seven units of 10s, budget 50s: the sixth is downloaded and rejected.
C3_Witness ==
    /\ pc = "returned"
    /\ Len(ayahs) = 7
    /\ max_dl100 = 50 * 100
    /\ measured = << 10, 10, 10, 10, 10, 10 >>
    /\ ayahs_used = 5
    /\ Cardinality(temp_files) = 5

\* C4: at every point of download_audio the retained units are the first
\* ayahs_used units of the input: audio_files has that length, its j-th entry
\* is the artifact written in iteration j-1, and that artifact holds the audio
\* of the j-th input unit -- whatever probes succeeded or failed.
C4_ContiguousPrefix ==
    /\ Len(audio_files) = ayahs_used
    /\ ayahs_used <= Len(ayahs)
    /\ \A j \in 1..ayahs_used :
          /\ audio_files[j] = j - 1
          /\ AudioFile(j - 1, ayahs[j]) \in temp_files

\* C4 witness: a returned call with failed and successful probes among the
\* retained units and a rejected unit after them.
C4_Witness ==
    /\ pc = "returned"
    /\ ayahs_used >= 3
    /\ ayahs_used < Len(ayahs)
    /\ \E j \in 1..ayahs_used : measured[j] = ProbeFail
    /\ \E j \in 1..ayahs_used : measured[j] # ProbeFail

\* ------------------------------------------------------ the pipeline (Spec)

\* The run has ended in success, or in failure in one of the stages of
\* _generate_video_internal.
EndedInSuccessOrFailure ==
    \/ outcome = "Success"
    \/ /\ outcome = "Failed"
       /\ failed_stage \in {"download", "merge", "background", "compose"}

\* C5 as stated: at the end of every run, in success or in failure at any
\* stage (download, merge, background preparation, composition), cleanup has
\* executed, so that no temporary artifact of the run remains.
C5_CleanupAtEveryEnd ==
    EndedInSuccessOrFailure => temp_files = {}

\* C6 as stated: a run cancelled at any of the checkpoints leaves no temporary
\* artifact in its scratch directory.
C6_CancelLeavesNothing ==
    outcome = "Cancelled" => temp_files = {}

\* C7: the first composition invocation carries the subtitle overlay; a second
\* one happens only after the first failed and carries no subtitles; there are
\* never more than two.
C7_RetryOnceWithoutSubtitles ==
    /\ Len(compositions) <= 2
    /\ Len(compositions) >= 1 => compositions[1].subs
    /\ Len(compositions) = 2 => (~compositions[1].ok /\ ~compositions[2].subs)

\* C7 witness: a run that succeeded through the retry.
C7_Witness ==
    /\ outcome = "Success"
    /\ Len(compositions) = 2
    /\ compositions[2].ok

\* C8: when the composition fails with and without subtitles, the run is Failed
\* with the encoder's error raised in composition, no output path is returned,
\* and neither 95 nor 100 is ever reported.
C8_DoubleFailureFails ==
    (/\ Len(compositions) = 2
     /\ ~compositions[1].ok
     /\ ~compositions[2].ok) =>
        /\ outcome = "Failed"
        /\ error = "CalledProcessError"
        /\ failed_stage = "compose"
        /\ ~returned_path
        /\ \A j \in 1..Len(progress) : progress[j] \notin {95, 100}

\* C8 witness: both invocations failed in a run that reports progress.
C8_Witness ==
    /\ has_callback
    /\ Len(compositions) = 2
    /\ ~compositions[1].ok
    /\ ~compositions[2].ok
    /\ progress = << 5, 10, 40, 50, 60, 70 >>

\* C9: a path is returned only by a run that succeeded and in which some
\* composition invocation completed successfully (the asset was written); a
\* cancelled or failed run returns no path.
C9_PathOnlyAfterComposition ==
    /\ returned_path =>
          /\ outcome = "Success"
          /\ output_file
          /\ \E j \in 1..Len(compositions) : compositions[j].ok
    /\ outcome \in {"Cancelled", "Failed"} => ~returned_path

\* C9 witness: a run that returned its path.
C9_Witness ==
    /\ returned_path
    /\ outcome = "Success"
    /\ Len(compositions) = 1

\* The percentage reported at the checkpoint the run is at.
PctAt(p) == Checkpoints[CHOOSE c \in DOMAIN Checkpoints : Checkpoints[c].at = p].pct

\* C10: a falsy answer of the callback cancels the run in that very step;
\* after it no external call is made and no artifact or output is written;
\* and a run becomes Cancelled only in the step of a checkpoint, which
\* reports that checkpoint's percentage and does nothing else.
C10_AbortAtCheckpoint ==
    [][ /\ sink_refused' => outcome' = "Cancelled"
        /\ sink_refused =>
              /\ ext_calls' = ext_calls
              /\ temp_files' = temp_files
              /\ compositions' = compositions
              /\ output_file' = output_file
        /\ (outcome # "Cancelled" /\ outcome' = "Cancelled") =>
              /\ has_callback
              /\ pc \in CheckpointPcs
              /\ pc' = pc
              /\ sink_refused'
              /\ progress' = Append(progress, PctAt(pc))
              /\ ext_calls' = ext_calls
              /\ temp_files' = temp_files
              /\ compositions' = compositions
      ]_vars

\* C10 witness: a run cancelled at the checkpoint before subtitle creation.
C10_Witness ==
    /\ outcome = "Cancelled"
    /\ sink_refused
    /\ pc = "cp50"
    /\ SubtitleFile \notin temp_files
    /\ MergedFile \in temp_files

\* ------------------------------------------- concurrent runs (SpecConc)

\* Threads a and b never wrote the same path, and neither's cleanup deleted an
\* artifact of the other while the other was still in progress.
ScopesDisjoint(a, b) ==
    /\ \A w1, w2 \in conc.written :
          (w1.by = a /\ w2.by = b) => ~(w1.dir = w2.dir /\ w1.name = w2.name)
    /\ \A l \in conc.lost : ~(l.victim = a /\ l.by = b) /\ ~(l.victim = b /\ l.by = a)

\* C11 as stated: any two concurrent runs own their temporary-artifact scopes
\* exclusively.
C11_Original ==
    \A a, b \in Threads : a # b => ScopesDisjoint(a, b)

\* C11 amended: any two concurrent runs on different generator instances own
\* their temporary-artifact scopes exclusively: no artifact path is written by
\* both, and the cleanup of one never deletes an artifact of the other while
\* that one is still in progress.
C11_ExclusiveScopePerGenerator ==
    \A a, b \in Threads :
        (a # b /\ conc.runs[a].gen # conc.runs[b].gen) => ScopesDisjoint(a, b)

\* C11 witness: two runs on different generators, one cleaned up while the other
\* was in the middle of its run with its artifacts on disk.
C11_Witness ==
    /\ conc.runs[1].gen # conc.runs[2].gen
    /\ conc.runs[1].status = "done"
    /\ conc.runs[2].status = "running"
    /\ conc.runs[2].at = 3
    /\ \E f \in conc.files : f.by = 2 /\ f.name = "merged_audio.mp3"
    /\ \E w \in conc.written : w.by = 1 /\ w.name = "merged_audio.mp3"

\* ------------------------------------------ _split_text_smart (SpecSplit)

\* The lines a greedy packing of the words at word boundaries needs, one space
\* between the words of a line; used is the length of the line being filled.
RECURSIVE PackedLines(_, _, _, _)
PackedLines(ws, used, lines, max_chars) ==
    IF ws = << >> THEN lines
    ELSE IF used = 0
         THEN PackedLines(Tail(ws), Len(Head(ws)), lines, max_chars)
         ELSE IF used + 1 + Len(Head(ws)) <= max_chars
              THEN PackedLines(Tail(ws), used + 1 + Len(Head(ws)), lines, max_chars)
              ELSE PackedLines(Tail(ws), Len(Head(ws)), lines + 1, max_chars)

\* The chunk fits max_lines lines of max_chars characters.
FitsLimits(chunk, max_chars, max_lines) ==
    /\ \A j \in 1..Len(PySplit(chunk)) : Len(PySplit(chunk)[j]) <= max_chars
    /\ PackedLines(PySplit(chunk), 0, 1, max_chars) <= max_lines

RECURSIVE WordsOfChunks(_)
WordsOfChunks(chunks) ==
    IF chunks = << >> THEN << >>
    ELSE PySplit(Head(chunks)) \o WordsOfChunks(Tail(chunks))

\* C16 as stated: for every input and all limits, no chunk exceeds max_lines
\* lines of max_chars_per_line characters when packed at word boundaries.
C16_Original ==
    fn.returned =>
        \A k \in 1..Len(fn.chunks) :
            FitsLimits(fn.chunks[k], fn.max_chars_per_line, fn.max_lines)

\* C16 amended: for every input none of whose words is longer than
\* max_chars_per_line, and all limits, no chunk exceeds max_lines lines of
\* max_chars_per_line characters when packed at word boundaries.
C16_ChunksFitLimits ==
    (/\ fn.returned
     /\ \A j \in 1..Len(PySplit(fn.text)) :
           Len(PySplit(fn.text)[j]) <= fn.max_chars_per_line) =>
        \A k \in 1..Len(fn.chunks) :
            FitsLimits(fn.chunks[k], fn.max_chars_per_line, fn.max_lines)

\* C16 witness: a text of short words split into several chunks, one of them
\* filling both of its lines.
C16_Witness ==
    /\ fn.returned
    /\ fn.max_lines = 2
    /\ Len(fn.chunks) >= 2
    /\ \A j \in 1..Len(PySplit(fn.text)) :
          Len(PySplit(fn.text)[j]) <= fn.max_chars_per_line
    /\ \E k \in 1..Len(fn.chunks) :
          PackedLines(PySplit(fn.chunks[k]), 0, 1, fn.max_chars_per_line) = 2

\* C17: the words of the returned chunks, in order, are the words of the input
\* (none split, lost, duplicated or reordered), and a returned chunk is empty
\* only when the input text is empty.
C17_WordsPreserved ==
    fn.returned =>
        /\ WordsOfChunks(fn.chunks) = PySplit(fn.text)
        /\ \A k \in 1..Len(fn.chunks) : fn.chunks[k] = << >> => fn.text = << >>

\* C17 witness: three different words spread over more than one chunk.
C17_Witness ==
    /\ fn.returned
    /\ Len(fn.chunks) >= 2
    /\ Len(PySplit(fn.text)) = 3
    /\ Cardinality({PySplit(fn.text)[j] : j \in 1..3}) = 3

\* C18 as stated, for the chunks the splitter produced itself: splitting one
\* of them again with the same limits returns exactly that chunk, unaltered.
C18_ResplitIsIdentity ==
    fn.again # 0 => fn.chunks_again = << fn.chunks[fn.again] >>

\* ------------------------------------------------ progress (Spec)

\* The percentages a run reports, in the order of the code.
ProgressOrder == << 5, 10, 40, 50, 60, 70, 95, 100 >>

\* C20: the percentages reported in a run are the first ones of 5, 10, 40, 50,
\* 60, 70, 95, 100 in that order, so strictly increasing and within 0..100;
\* 100 is reported only by a run that succeeded, and only after cleanup.
C20_ProgressIncreasing ==
    /\ Len(progress) <= Len(ProgressOrder)
    /\ \A j \in 1..Len(progress) : progress[j] = ProgressOrder[j]
    /\ \A j \in 1..Len(progress) : progress[j] \in 0..100
    /\ \A j \in 1..(Len(progress) - 1) : progress[j] < progress[j + 1]
    /\ (\E j \in 1..Len(progress) : progress[j] = 100) =>
          /\ outcome = "Success"
          /\ cleanup_ran
          /\ temp_files = {}

\* C20 witness: a successful run that reported every percentage.
C20_Witness ==
    /\ outcome = "Success"
    /\ progress = ProgressOrder
    /\ cleanup_ran

\* --------------------------------------------- _format_time (SpecFmt)

DigitValue(c) == CHOOSE n \in 0..9 : Digit(n) = c

RECURSIVE ParseNat(_, _)
ParseNat(chars, acc) ==
    IF chars = << >> THEN acc
    ELSE ParseNat(Tail(chars), 10 * acc + DigitValue(Head(chars)))

\* The fields of a rendered H:MM:SS.CC time, as written.
TimeFields(text) ==
    LET colons == {i \in 1..Len(text) : text[i] = ":"}
        c1 == CHOOSE i \in colons : \A j \in colons : i <= j
        c2 == CHOOSE i \in colons : \A j \in colons : j <= i
        dot == CHOOSE i \in 1..Len(text) : text[i] = "."
    IN  [hours |-> SubSeq(text, 1, c1 - 1),
         minutes |-> SubSeq(text, c1 + 1, c2 - 1),
         secs |-> SubSeq(text, c2 + 1, dot - 1),
         centisecs |-> SubSeq(text, dot + 1, Len(text))]

\* The rendered time parsed back, in centiseconds.
ParsedCs(text) ==
    LET f == TimeFields(text)
    IN  ((ParseNat(f.hours, 0) * 60 + ParseNat(f.minutes, 0)) * 60
            + ParseNat(f.secs, 0)) * 100 + ParseNat(f.centisecs, 0)

\* Minutes and seconds are two digits in 00..59, centiseconds two in 00..99.
FieldsInRange(text) ==
    LET f == TimeFields(text)
    IN  /\ Len(f.hours) >= 1
        /\ Len(f.minutes) = 2 /\ ParseNat(f.minutes, 0) \in 0..59
        /\ Len(f.secs) = 2 /\ ParseNat(f.secs, 0) \in 0..59
        /\ Len(f.centisecs) = 2 /\ ParseNat(f.centisecs, 0) \in 0..99

\* floor(100 * seconds), exactly.
WholeCs(seconds) == IntPart(ExactMul(100, seconds))

\* C19 as stated: the fields are in range, and the time parsed back is never
\* greater than the original and within a centisecond of it.
C19_Original ==
    fn.returned =>
        /\ FieldsInRange(fn.text)
        /\ ParsedCs(fn.text) <= WholeCs(fn.seconds)
        /\ WholeCs(fn.seconds) <= ParsedCs(fn.text)

\* C19 amended: the fields are in range and the time parsed back differs from
\* the original by less than a centisecond; it is greater than the original
\* only when (seconds % 1) * 100 rounds up to a whole number.
C19_RoundTripWithinCentisecond ==
    fn.returned =>
        /\ FieldsInRange(fn.text)
        /\ WholeCs(fn.seconds) <= ParsedCs(fn.text)
        /\ ParsedCs(fn.text) <= WholeCs(fn.seconds) + 1
        /\ ParsedCs(fn.text) = WholeCs(fn.seconds) + 1 =>
              /\ FracPart(FMulNat(100, FracPart(fn.seconds))) = FZero
              /\ FracPart(ExactMul(100, fn.seconds)) # FZero

\* C19 witness: a time of ten hours or more whose last centisecond is cut.
C19_Witness ==
    /\ fn.returned
    /\ Hours(fn.seconds) >= 10
    /\ Minutes(fn.seconds) = 59 /\ Secs(fn.seconds) = 59
    /\ Centisecs(fn.seconds) = 99
    /\ FracPart(ExactMul(100, fn.seconds)) # FZero

\* ------------------------------------- create_subtitle_file (SpecSub)

\* The slots made for unit u, in order.
SlotsOf(u) == SelectSeq(fn.slots, LAMBDA sl : sl.unit = u)

\* The lines of one style, in the order of the document.
EventsOf(u, style) == SelectSeq(fn.events, LAMBDA e : e.unit = u /\ e.style = style)

\* ds[1] + ... + ds[k], added in that order.
RECURSIVE FloatSum(_, _)
FloatSum(ds, k) ==
    IF k = 0 THEN FZero ELSE FAdd(FloatSum(ds, k - 1), ds[k])

\* C12: in the document the slots of a unit partition its interval: the first
\* starts at the unit's offset, each starts where the one before ends, and the
\* last ends at offset + duration.
C12_SlotsPartitionInterval ==
    fn.op = "create_subtitle_file" =>
        \A u \in 1..fn.i :
            LET S == SlotsOf(u)
            IN  /\ S[1].chunk_start_time = FormatTime(fn.offsets[u])
                /\ \A j \in 1..(Len(S) - 1) :
                      S[j].chunk_end_time = S[j + 1].chunk_start_time
                /\ S[Len(S)].chunk_end_time = fn.end_times[u]

\* x <= y on floats
RECURSIVE LeqFrom(_, _, _)
LeqFrom(x, y, i) ==
    IF i > Limbs THEN TRUE
    ELSE IF x[i] # y[i] THEN x[i] < y[i]
         ELSE LeqFrom(x, y, i + 1)

Leq(x, y) == LeqFrom(x, y, 1)

RECURSIVE Emitted(_)
Emitted(chunks) ==
    IF chunks = << >> THEN << >>
    ELSE IF Head(chunks) # << >> THEN << Head(chunks) >> \o Emitted(Tail(chunks))
         ELSE Emitted(Tail(chunks))

\* C14: a unit has as many slots as the longer of its two chunk lists, every
\* slot lasts duration / slot count, each text makes lines for its own chunks
\* only, slot by slot from the first, and no line has an empty text.
C14_SlotsFollowLongerText ==
    fn.op = "create_subtitle_file" =>
        \A u \in 1..fn.i :
            LET S == SlotsOf(u)
                a == fn.chunks[u].arabic
                t == fn.chunks[u].translation
            IN  /\ Len(S) = IF Len(a) >= Len(t) THEN Len(a) ELSE Len(t)
                /\ \A j \in 1..Len(S) :
                      /\ S[j].slot = j
                      /\ S[j].chunk_end =
                            FAdd(S[j].chunk_start, FDivNat(fn.durations[u], Len(S)))
                /\ [k \in 1..Len(EventsOf(u, "Arabic")) |->
                       EventsOf(u, "Arabic")[k].text] = Emitted(a)
                /\ [k \in 1..Len(EventsOf(u, "English")) |->
                       EventsOf(u, "English")[k].text] = Emitted(t)
                /\ \A k \in 1..Len(fn.events) :
                      /\ fn.events[k].text # << >>
                      /\ fn.events[k].unit = u =>
                            /\ fn.events[k].slot <=
                                  Len(IF fn.events[k].style = "Arabic" THEN a ELSE t)
                            /\ fn.events[k].text =
                                  (IF fn.events[k].style = "Arabic" THEN a ELSE t)
                                      [fn.events[k].slot]

\* C14 witness: a written document with a unit whose translation has more
\* chunks than its Arabic text, and a unit with no translation at all.
C14_Witness ==
    /\ fn.op = "create_subtitle_file"
    /\ fn.written
    /\ \E u \in 1..fn.i :
          /\ Len(fn.chunks[u].arabic) = 1
          /\ Len(fn.chunks[u].translation) = 3
          /\ Len(EventsOf(u, "Arabic")) = 1
          /\ Len(EventsOf(u, "English")) = 3
    /\ \E u \in 1..fn.i :
          /\ fn.chunks[u].translation = << << >> >>
          /\ Len(SlotsOf(u)) = 3
          /\ EventsOf(u, "English") = << >>

\* C15: no two lines of one style overlap in time, and the two lines of one
\* slot have the same start and the same end.
C15_NoOverlapWithinStyle ==
    fn.op = "create_subtitle_file" =>
        \A k, h \in 1..Len(fn.events) :
            /\ (k < h /\ fn.events[k].style = fn.events[h].style) =>
                  \/ ParsedCs(fn.events[k].end) <= ParsedCs(fn.events[h].start)
                  \/ ParsedCs(fn.events[h].end) <= ParsedCs(fn.events[k].start)
            /\ (/\ fn.events[k].unit = fn.events[h].unit
                /\ fn.events[k].slot = fn.events[h].slot) =>
                  /\ fn.events[k].start = fn.events[h].start
                  /\ fn.events[k].end = fn.events[h].end

\* C21: once the output name is derived, the end of the range in the name is
\* the sequence number of the last unit of the working list (the last unit
\* retained), also when the lookup skipped units and when the list was trimmed.
C21_NameEndIsLastRetained ==
    (pc \in Named /\ Len(ayahs) > 0) => DerivedRange.end = ayahs[Len(ayahs)]

\* The numbers of the range whose answer, the k-th received, satisfies P.
AnsweredUnits(P(_)) ==
    {fn.ayah_start + k - 1 : k \in {j \in 1..Len(fn.answers) : P(fn.answers[j])}}

\* The answer carries a success status and a non-empty audio reference.
Usable(answer) == answer.code = 200 /\ answer.audio \notin {"absent", ""}

\* C22: get_ayah_data returns the units of [start, end] in ascending order,
\* omitting exactly the units whose answer has a non-success status or no
\* audio reference (absent or empty); an omitted unit does not end the range:
\* every number of the range is requested, once and in order.
C22_FetchOmitsExactlyUnusable ==
    (fn.op = "get_ayah_data" /\ fn.at = "returned") =>
        /\ \A j \in 1..(Len(fn.ayahs) - 1) : fn.ayahs[j] < fn.ayahs[j + 1]
        /\ {fn.ayahs[j] : j \in 1..Len(fn.ayahs)} = AnsweredUnits(Usable)
        /\ Len(fn.answers) = fn.ayah_end - fn.ayah_start + 1
        /\ Len(fn.requested) = fn.ayah_end - fn.ayah_start + 1
        /\ \A j \in 1..Len(fn.requested) :
              fn.requested[j].ayah_num = fn.ayah_start + j - 1

\* C22 witness: a returned call of three units where the first has no audio
\* reference, the second was answered with a non-success status and the third,
\* requested after both, is returned alone.
C22_Witness ==
    /\ fn.op = "get_ayah_data"
    /\ fn.at = "returned"
    /\ Len(fn.answers) = 3
    /\ fn.answers[1].code = 200 /\ fn.answers[1].audio \in {"absent", ""}
    /\ fn.answers[2].code # 200
    /\ fn.ayahs = << fn.ayah_start + 2 >>

\* The second subtitle language the generator is configured with.
ConfiguredLang ==
    IF Len(fn.subtitle_languages) > 1 THEN fn.subtitle_languages[2] ELSE "en"

\* C24: for a language code that is not a key of translation_map the lookups
\* use the edition en.sahih and the code raises nothing (an exception can only
\* come from a request); for a mapped code they use exactly the mapped edition.
C24_EditionLookup ==
    (fn.op = "get_ayah_data" /\ fn.at # "begin") =>
        /\ ConfiguredLang \notin DOMAIN translation_map =>
              /\ fn.translation_edition = "en.sahih"
              /\ fn.raised # "" => Len(fn.requested) > Len(fn.answers)
        /\ ConfiguredLang \in DOMAIN translation_map =>
              fn.translation_edition = translation_map[ConfiguredLang]
        /\ \A j \in 1..Len(fn.requested) :
              fn.requested[j].edition = fn.translation_edition

\* C24 witness: a returned call for the unmapped code "it" that requested a
\* unit with the edition en.sahih.
C24_Witness ==
    /\ fn.op = "get_ayah_data"
    /\ fn.at = "returned"
    /\ fn.subtitle_languages = << "ar", "it" >>
    /\ Len(fn.requested) > 0
    /\ fn.requested[1].edition = "en.sahih"
    /\ fn.raised = ""

\* C23: a unit whose probe failed during the download is retained (its
\* artifact is listed and on disk, and it is counted in ayahs_used), the loop
\* goes on with the next unit, and the call fails only through a fetch that
\* raised, never through the probe.
C23_ProbeFailureKeepsUnit ==
    entry = "download_audio" =>
        /\ \A j \in 1..Len(measured) :
              measured[j] = ProbeFail =>
                 /\ Len(audio_files) >= j
                 /\ audio_files[j] = j - 1
                 /\ AudioFile(j - 1, ayahs[j]) \in temp_files
                 /\ ayahs_used >= j
                 /\ (j = Len(measured) /\ j < Len(ayahs)) =>
                       (pc = "download_loop" /\ dl_i = j)
        /\ outcome = "Failed" =>
              (error = "RequestException" /\ ext_calls = 2 * Len(measured) + 1)

\* C23 witness: a returned call in which the probe of the first unit failed and
\* a later unit was downloaded and measured.
C23_Witness ==
    /\ entry = "download_audio"
    /\ pc = "returned"
    /\ Len(measured) >= 3
    /\ measured[1] = ProbeFail
    /\ measured[2] # ProbeFail
    /\ measured[3] = ProbeFail
    /\ ayahs_used = 3

\* The stage a position of the run belongs to.  A checkpoint belongs to the
\* stage it announces; the selection of a clip precedes the stages.
StageOf(at) ==
    CASE at = "generate_random_video" -> "Start"
      [] at \in {"get_ayah_data", "cp5"} -> "Fetching"
      [] at \in {"cp10", "download_audio", "download_loop", "download_return"} -> "Downloading"
      [] at \in {"cp40", "merge_audio_files", "probe_total"} -> "Merging"
      [] at \in {"cp50", "create_subtitle_file"} -> "Timing"
      [] at \in {"cp60", "prepare_background", "create_background_video"} -> "BackgroundPrep"
      [] at \in {"cp70", "compose", "compose_retry"} -> "Composing"
      [] at \in {"cp95", "_cleanup", "finish"} -> "Cleanup"
      [] at = "done" -> "Done"

StageOrder ==
    << "Start", "Fetching", "Downloading", "Merging", "Timing", "BackgroundPrep",
       "Composing", "Cleanup", "Done" >>

Rank(stage) == CHOOSE r \in DOMAIN StageOrder : StageOrder[r] = stage

\* A stage is left only for the next stage of the order.
NextStageOnly ==
    StageOf(pc') # StageOf(pc) => Rank(StageOf(pc')) = Rank(StageOf(pc)) + 1

\* A composition was invoked only with the merged audio and a background track
\* on disk.
ComposedFromBoth ==
    (pc \in {"compose", "compose_retry"} \/ (compositions # << >> /\ ~cleanup_ran)) =>
        /\ MergedFile \in temp_files
        /\ (BackgroundFile \in temp_files \/ ResizedFile \in temp_files)

\* C25: the stages of a run are entered in the order Fetching, Downloading,
\* Merging, Timing, BackgroundPrep, Composing, Cleanup, Done, none twice and
\* none skipped, and a composition never starts before the merged audio and
\* the background track exist.
C25_StagesInOrder == [][NextStageOnly]_vars /\ []ComposedFromBoth

\* The entries of the subtitle timeline: each unit with the duration it is given.
Timeline == Zip(ayahs, durations)

\* Subtitle creation is about to start, or has run.
AtTiming == pc = "create_subtitle_file"
Timed == pc \in {"cp60", "prepare_background"} \cup Named

\* C26: when subtitle creation starts the working unit list and the artifact
\* list both have the retained count k as their length, and the i-th unit is
\* timed with the duration of the i-th artifact, which holds that unit's audio:
\* every retained unit has an entry and none is paired with another's audio.
C26_YieldPropagatesToTiming ==
    /\ AtTiming => (Len(ayahs) = ayahs_used /\ Len(audio_files) = ayahs_used)
    /\ (Timed /\ ~cleanup_ran) =>
          /\ Len(Timeline) = ayahs_used
          /\ \A i \in 1..Len(Timeline) :
                /\ Timeline[i].unit = ayahs[i]
                /\ Timeline[i].of = audio_files[i]
                /\ AudioFile(Timeline[i].of, Timeline[i].unit) \in temp_files

\* C26 witness: subtitle creation has run on a list that the download trimmed
\* from two fetched units to one, after the lookup had skipped the first unit
\* of the range.
C26_Witness ==
    /\ pc = "cp60"
    /\ ayahs_used = 1
    /\ Len(measured) = 2
    /\ Len(Timeline) = 1
    /\ Timeline[1].unit = ayah_start + 1
    /\ Timeline[1].of = 0

\* The merge invocation or a background invocation (synthesis or resize) failed.
EncoderFailed ==
    /\ error = "CalledProcessError"
    /\ failed_stage \in {"merge", "background"}

\* C27: when the merge or a background preparation invocation fails the run
\* ends Failed at that step: no composition has been or will be invoked, no
\* further invocation (retry or fallback) is made, and a composition is only
\* ever invoked with the merged audio and a background track produced.
C27_EncoderFailureIsFatal ==
    /\ [](EncoderFailed =>
            /\ outcome = "Failed"
            /\ compositions = << >>
            /\ pc \in {"merge_audio_files", "prepare_background", "create_background_video"}
            /\ ~returned_path)
    /\ [][EncoderFailed => (ext_calls' = ext_calls /\ compositions' = compositions)]_vars
    /\ [](compositions # << >> /\ ~cleanup_ran =>
             /\ MergedFile \in temp_files
             /\ \E f \in {BackgroundFile, ResizedFile} : f \in temp_files)

\* C27 witness: the resize of a selected clip failed after the audio was merged
\* and the subtitles were written.
C27_Witness ==
    /\ EncoderFailed
    /\ failed_stage = "background"
    /\ background_video
    /\ pc = "prepare_background"
    /\ MergedFile \in temp_files
    /\ SubtitleFile \in temp_files

\* Every probe of a retained unit succeeded, and the first unit alone is within
\* the download budget.
ProbesOkFirstWithinBudget ==
    /\ ayahs_used >= 1
    /\ \A j \in 1..ayahs_used : measured[j] # ProbeFail
    /\ measured[1] * 100 <= max_dl100

\* C28: when every probe succeeded and the first unit is within the download
\* budget, the merged audio -- whose duration is then the sum of the retained
\* durations -- is at most max_duration long, and the total is taken as
\* probed: the branch that sets it to target_duration is not taken.
C28_NoForcedTrimWithinBudget ==
    (entry # "download_audio" /\ merged_total # -1 /\ ProbesOkFirstWithinBudget) =>
        /\ RetainedTotal(measured, ayahs_used) <= max_duration
        /\ merged_total = RetainedTotal(measured, ayahs_used)

\* C28 witness: three units of 40 seconds were probed, two were retained, and
\* the merged total is their 80 seconds.
C28_Witness ==
    /\ pc = "cp50"
    /\ ProbesOkFirstWithinBudget
    /\ Len(measured) = 3
    /\ ayahs_used = 2
    /\ merged_total = 80

\* C29: for every retained unit, what the unit added to the running total of
\* the download is the duration of its interval in the subtitle timeline,
\* also for a unit whose probe failed.
C29_BudgetAndTimelineAgree ==
    Timed =>
        \A i \in 1..Len(Timeline) :
            Timeline[i].seconds = Contribution(measured[Timeline[i].of + 1])

\* The positions from which the next step invokes something that writes an
\* artifact into the scratch directory.
WritingSteps ==
    {"create_background_video", "download_loop", "merge_audio_files",
     "create_subtitle_file", "prepare_background"}

\* The step is the invocation of a writer.
WriteAttempted == pc \in WritingSteps /\ ext_calls' # ext_calls

\* C30: in any sequence of runs on one generator, every invocation that
\* writes a temporary artifact is made with the scratch directory in place; a
\* run that follows a cleaned-up run has re-created the directory by then.
C30_WritesIntoExistingDirectory == [][WriteAttempted => temp_dir_exists']_vars

\* C31: a run that ends Cancelled has written no final output asset: none of
\* its composition invocations completed before the cancellation, at whichever
\* checkpoint it was honoured, the one after the composition (95) included.
C31_CancelledRunWroteNoOutput ==
    outcome = "Cancelled" =>
        /\ ~output_file
        /\ \A c \in 1..Len(compositions) : ~compositions[c].ok

====
